---- MODULE Spec2Model ----
(***************************************************************************)
(* Model of the two command-line programs of Python2ExeTool:               *)
(*   tool/ExampleProgram.py  the CSV aggregation pipeline                  *)
(*   tool/Python2Exe.py      the interactive test-and-compile helper       *)
(* Strings are sequences of one-character strings, so that the regular     *)
(* expression, strip(), lower(), endswith(), split() and os.path.join do   *)
(* real work.  Python's None is the empty tuple <<>> and a present value v *)
(* is <<v>>.                                                               *)
(***************************************************************************)
EXTENDS Integers, Sequences, FiniteSets, TLC

\* ------------------------------------------------------------------ bounds
\* longest exhaustively enumerated raw invocation string
MaxLen == 3
\* most file names in a well-formed "a.csv, b.csv" invocation string
MaxFiles == 2

\* ------------------------------------------------------------- characters
None == <<>>

Some(v) == <<v>>

\* str.isspace() / the regular expression class \s
Whitespace == {" ", "\t", "\n", "\r", "\f"}

Alphabet == {"a", ",", " ", "\t", "/"}

LowerChar(c) ==
    CASE c = "A" -> "a" [] c = "B" -> "b" [] c = "C" -> "c" [] c = "S" -> "s"
      [] c = "V" -> "v" [] c = "Q" -> "q" [] c = "Y" -> "y" [] c = "N" -> "n"
      [] OTHER -> c

\* str.lower()
Lower(s) == [i \in 1..Len(s) |-> LowerChar(s[i])]

\* str.endswith(suffix)
EndsWith(s, suffix) ==
    /\ Len(s) >= Len(suffix)
    /\ SubSeq(s, Len(s) - Len(suffix) + 1, Len(s)) = suffix

RECURSIVE LStrip(_)
LStrip(s) ==
    IF s # <<>> /\ Head(s) \in Whitespace THEN LStrip(Tail(s)) ELSE s

RECURSIVE RStrip(_)
RStrip(s) ==
    IF s # <<>> /\ s[Len(s)] \in Whitespace
    THEN RStrip(SubSeq(s, 1, Len(s) - 1))
    ELSE s

\* str.strip()
Strip(s) == RStrip(LStrip(s))

\* ------------------------------------------------------------ FileParser
\* a character class that leaves whitespace out: [^,]
InClassMutant(c) == c # ","

\* the character class [^,\s] of file_parse_regex
InClass(c) == c # "," /\ c \notin Whitespace

\* the greedy + : the last index of the match that starts at i
RECURSIVE MatchEnd(_, _)
MatchEnd(s, i) ==
    IF i < Len(s) /\ InClass(s[i + 1]) THEN MatchEnd(s, i + 1) ELSE i

\* re.findall(file_parse_regex, s), scanning from index i
RECURSIVE FindAll(_, _)
FindAll(s, i) ==
    IF i > Len(s) THEN <<>>
    ELSE IF InClass(s[i])
         THEN <<SubSeq(s, i, MatchEnd(s, i))>> \o FindAll(s, MatchEnd(s, i) + 1)
         ELSE FindAll(s, i + 1)

\* os.path.join(a, b) (posixpath)
OsPathJoin(a, b) ==
    IF b # <<>> /\ Head(b) = "/" THEN b
    ELSE IF a = <<>> \/ a[Len(a)] = "/" THEN a \o b
    ELSE a \o <<"/">> \o b

parse_file_string(file_string, base_path) ==
    LET matches == FindAll(file_string, 1)
    IN  [k \in 1..Len(matches) |-> OsPathJoin(base_path, Strip(matches[k]))]

\* ------------------------------------------------------------ file system
\* names of the directory entries the runs refer to
A_csv == <<"a", ".", "c", "s", "v">>

B_CSV == <<"b", ".", "C", "S", "V">>

C_csv == <<"c", ".", "c", "s", "v">>

H_csv == <<"h", ".", "c", "s", "v">>

E_csv == <<"e", ".", "c", "s", "v">>

U_csv == <<"u", ".", "c", "s", "v">>

D_csv == <<"d", ".", "c", "s", "v">>

N_txt == <<"n", ".", "t", "x", "t">>

M_csv == <<"m", ".", "c", "s", "v">>

R_csv == <<"r", ".", "c", "s", "v">>

Names == {A_csv, B_CSV, C_csv, H_csv, E_csv, U_csv, D_csv, N_txt, M_csv, R_csv}

\* what pd.read_csv makes of a regular file: a table (column names, rows), a
\* zero-byte file (EmptyDataError) or malformed content (ParserError)
Table(cols, rows) == [type |-> "file", kind |-> "table", cols |-> cols, rows |-> rows]

\* the entries of the working directory; M_csv is not among them.  R_csv is an
\* entry whose stat raises an unexpected error.
World ==
    (A_csv :> Table(<<"x">>, <<[x |-> 1], [x |-> 2]>>)) @@
    (B_CSV :> Table(<<"x">>, <<[x |-> 3]>>)) @@
    (C_csv :> Table(<<"y">>, <<[y |-> 4]>>)) @@
    (H_csv :> Table(<<"x">>, <<>>)) @@
    (E_csv :> [type |-> "file", kind |-> "zero"]) @@
    (U_csv :> [type |-> "file", kind |-> "bad"]) @@
    (D_csv :> [type |-> "dir"]) @@
    (N_txt :> Table(<<"x">>, <<[x |-> 5]>>)) @@
    (R_csv :> [type |-> "raises"])

\* the working directories a run may start in
Bases == {<<"/", "w">>, <<"/">>}

\* runs of "/" count as one
RECURSIVE Clean(_)
Clean(p) ==
    IF Len(p) < 2 THEN p
    ELSE IF p[1] = "/" /\ p[2] = "/" THEN Clean(Tail(p))
    ELSE <<p[1]>> \o Clean(Tail(p))

\* os.stat(path) with the process in directory dir
Stat(dir, path) ==
    LET q == Clean(path)
        trailing == Len(q) > 1 /\ q[Len(q)] = "/"
        r == IF trailing THEN SubSeq(q, 1, Len(q) - 1) ELSE q
        hits == {n \in DOMAIN World : OsPathJoin(dir, n) = r}
    IN  IF q = <<>> THEN [type |-> "missing"]
        ELSE IF r = <<"/">> \/ r = dir THEN [type |-> "dir"]
        ELSE IF hits = {} THEN [type |-> "missing"]
        ELSE LET e == World[CHOOSE n \in hits : TRUE]
             IN  IF trailing /\ e.type # "dir" THEN [type |-> "missing"] ELSE e

Entry(level, msg, arg) == [level |-> level, msg |-> msg, arg |-> arg]

\* --------------------------------------------------------- FileValidator
CsvSuffix == <<".", "c", "s", "v">>

\* an extension test that is case-sensitive: path.endswith('.csv')
HasCsvExtensionMutant(path) == EndsWith(path, CsvSuffix)

\* path.lower().endswith('.csv')
HasCsvExtension(path) == EndsWith(Lower(path), CsvSuffix)

\* one iteration of the loop of validate_file_paths: whether the path is
\* appended to valid_paths, and what is logged
ValidateOne(dir, path) ==
    LET st == Stat(dir, path)
    IN  IF st.type = "raises"
        THEN [keep |-> FALSE, log |-> Entry("ERROR", "Error validating path", path)]
        ELSE IF st.type = "missing"
        THEN [keep |-> FALSE, log |-> Entry("WARNING", "Path does not exist", path)]
        ELSE IF st.type # "file"
        THEN [keep |-> FALSE, log |-> Entry("WARNING", "Not a file", path)]
        ELSE IF ~HasCsvExtension(path)
        THEN [keep |-> FALSE, log |-> Entry("WARNING", "Not a CSV file", path)]
        ELSE [keep |-> TRUE, log |-> <<>>]

RECURSIVE validate_file_paths(_, _)
validate_file_paths(dir, file_paths) ==
    IF file_paths = <<>> THEN [valid_paths |-> <<>>, log |-> <<>>]
    ELSE LET one == ValidateOne(dir, Head(file_paths))
             rest == validate_file_paths(dir, Tail(file_paths))
         IN  [valid_paths |-> (IF one.keep THEN <<Head(file_paths)>> ELSE <<>>)
                                 \o rest.valid_paths,
              log |-> (IF one.keep THEN <<>> ELSE <<one.log>>) \o rest.log]

\* ---------------------------------------------------------- CSVProcessor
NaN == "NaN"

\* pd.read_csv(file): the DataFrame, or the exception raised
ReadCsv(dir, file) ==
    LET st == Stat(dir, file)
    IN  IF st.type # "file" THEN [ok |-> FALSE, err |-> "OSError"]
        ELSE IF st.kind = "zero" THEN [ok |-> FALSE, err |-> "EmptyDataError"]
        ELSE IF st.kind = "bad" THEN [ok |-> FALSE, err |-> "ParserError"]
        ELSE [ok |-> TRUE, df |-> [cols |-> st.cols, rows |-> st.rows]]

\* the columns of cols, then those of more that cols lacks, in order
RECURSIVE UnionCols(_, _)
UnionCols(cols, more) ==
    IF more = <<>> THEN cols
    ELSE IF \E i \in 1..Len(cols) : cols[i] = Head(more)
         THEN UnionCols(cols, Tail(more))
         ELSE UnionCols(Append(cols, Head(more)), Tail(more))

RECURSIVE AllCols(_)
AllCols(dfs) ==
    IF dfs = <<>> THEN <<>>
    ELSE UnionCols(Head(dfs).cols, AllCols(Tail(dfs)))

Range(f) == {f[i] : i \in DOMAIN f}

\* a row over the union of the columns: missing values are NaN
Pad(row, colset) ==
    [c \in colset |-> IF c \in DOMAIN row THEN row[c] ELSE NaN]

RECURSIVE StackRows(_, _)
StackRows(dfs, colset) ==
    IF dfs = <<>> THEN <<>>
    ELSE [i \in 1..Len(Head(dfs).rows) |-> Pad(Head(dfs).rows[i], colset)]
             \o StackRows(Tail(dfs), colset)

\* pd.concat(dataframes, ignore_index=True)
Concat(dfs) ==
    [cols |-> AllCols(dfs), rows |-> StackRows(dfs, Range(AllCols(dfs)))]

\* a loop body that appends an empty dataset for an empty file
ReadOneAppendsEmpty(dir, file) ==
    LET r == ReadCsv(dir, file)
    IN  IF r.ok
        THEN [dfs |-> <<r.df>>, log |-> Entry("INFO", "Successfully processed", file)]
        ELSE IF r.err = "EmptyDataError"
        THEN [dfs |-> <<[cols |-> <<>>, rows |-> <<>>]>>,
              log |-> Entry("WARNING", "Empty file", file)]
        ELSE [dfs |-> <<>>, log |-> Entry("ERROR", "Error processing", file)]

\* a loop body that drops every dataset of zero rows
ReadOneDropsZeroRows(dir, file) ==
    LET r == ReadCsv(dir, file)
    IN  IF r.ok /\ r.df.rows # <<>>
        THEN [dfs |-> <<r.df>>, log |-> Entry("INFO", "Successfully processed", file)]
        ELSE [dfs |-> <<>>, log |-> Entry("WARNING", "Empty file", file)]

ReadOne(dir, file) ==
    LET r == ReadCsv(dir, file)
    IN  IF r.ok
        THEN [dfs |-> <<r.df>>, log |-> Entry("INFO", "Successfully processed", file)]
        ELSE IF r.err = "EmptyDataError"
        THEN [dfs |-> <<>>, log |-> Entry("WARNING", "Empty file", file)]
        ELSE [dfs |-> <<>>, log |-> Entry("ERROR", "Error processing", file)]

\* a loop that a failed read ends
RECURSIVE ReadAllMutant(_, _)
ReadAllMutant(dir, file_paths) ==
    IF file_paths = <<>> THEN [dataframes |-> <<>>, log |-> <<>>]
    ELSE LET one == ReadOne(dir, Head(file_paths))
             rest == IF one.dfs = <<>>
                     THEN [dataframes |-> <<>>, log |-> <<>>]
                     ELSE ReadAllMutant(dir, Tail(file_paths))
         IN  [dataframes |-> one.dfs \o rest.dataframes,
              log |-> <<one.log>> \o rest.log]

\* the loop of read_and_concat_csvs: the list dataframes and the log
RECURSIVE ReadAll(_, _)
ReadAll(dir, file_paths) ==
    IF file_paths = <<>> THEN [dataframes |-> <<>>, log |-> <<>>]
    ELSE LET one == ReadOne(dir, Head(file_paths))
             rest == ReadAll(dir, Tail(file_paths))
         IN  [dataframes |-> one.dfs \o rest.dataframes,
              log |-> <<one.log>> \o rest.log]

read_and_concat_csvs(dir, file_paths) ==
    IF file_paths = <<>>
    THEN [df |-> None, dataframes |-> <<>>,
          log |-> <<Entry("WARNING", "No valid files to process", <<>>)>>]
    ELSE LET all == ReadAll(dir, file_paths)
         IN  IF all.dataframes # <<>>
             THEN [df |-> Some(Concat(all.dataframes)),
                   dataframes |-> all.dataframes, log |-> all.log]
             ELSE [df |-> None, dataframes |-> <<>>,
                   log |-> Append(all.log,
                              Entry("WARNING", "No DataFrames were processed", <<>>))]

\* ------------------------------------------------------------ FileWriter
DefaultFilename == <<"a", "g", "g", "r", "e", "g", "a", "t", "e", "d", "_", "d", "a", "t", "a", ".", "c", "s", "v">>

\* save_dataframe(dataframe, base_path): the path returned and what is on
\* disk, or the exception re-raised after it is logged
save_dataframe(dataframe, base, write_ok) ==
    LET out_file == OsPathJoin(base, DefaultFilename)
    IN  IF write_ok
        THEN [raised |-> FALSE, out |-> Some(out_file),
              written |-> Some([path |-> out_file, df |-> dataframe]),
              log |-> <<Entry("INFO", "Aggregated data saved to", out_file)>>]
        ELSE [raised |-> TRUE, out |-> None, written |-> None,
              log |-> <<Entry("ERROR", "Error saving file", <<>>)>>]

\* =================================================== ExampleProgram: state
VARIABLES
    argv,         \* sys.argv[1:]
    cwd,          \* the working directory of the process
    pc,           \* where main is
    file_string,  \* DataAggregator.file_string
    base_path,    \* DataAggregator.base_path
    dataframe,    \* DataAggregator.dataframe
    file_paths,   \* process: the parser's result
    valid_paths,  \* process: the validator's result
    dataframes,   \* read_and_concat_csvs: the list of per-file datasets
    result,       \* main: what process returned
    raised,       \* the stages that raised an exception so far
    save_calls,   \* calls of FileWriter.save_dataframe
    disk,         \* the output file written, if any
    log,          \* the records logged
    stdout,       \* the lines printed
    exit_code     \* the exit code of the process, once it has ended

aggVars == <<argv, cwd, pc, file_string, base_path, dataframe, file_paths,
             valid_paths, dataframes, result, raised, save_calls, disk, log,
             stdout, exit_code>>

\* ====================================================== Python2Exe: state
VARIABLES
    epc,             \* where Python2Exe.main is
    eargv,           \* sys.argv[1:]
    file_exists,     \* whether the script is on disk
    file,            \* Executer.file
    test_question,   \* main: the last answer, stripped and lower-cased
    arguments,       \* test_file: the arguments of the test run
    test_result,     \* what the last call of test_file returned
    prompts,         \* answers read by the loop of main
    test_calls,      \* calls of Executer.test_file
    launches,        \* scripts launched with subprocess.Popen
    compile_calls,   \* calls of Executer.compile_python
    entered,         \* the string typed at the prompt of get_imports
    import_string,   \* compile_python: what get_imports returned
    pyinstaller_args,\* the options handed to PyInstaller.__main__.run
    eexit            \* the exit code of Python2Exe, once it has ended

exeVars == <<epc, eargv, file_exists, file, test_question, arguments,
             test_result, prompts, test_calls, launches, compile_calls,
             entered, import_string, pyinstaller_args, eexit>>

vars == <<aggVars, exeVars>>

\* ------------------------------------------------------------------ inputs
RECURSIVE StringsOver(_, _)
StringsOver(chars, n) ==
    IF n = 0 THEN {<<>>}
    ELSE LET shorter == StringsOver(chars, n - 1)
         IN  shorter \cup {Append(s, c) : s \in {t \in shorter : Len(t) = n - 1},
                                          c \in chars}

\* names[1], ", ", names[2], ...
RECURSIVE CommaList(_)
CommaList(names) ==
    IF Len(names) = 0 THEN <<>>
    ELSE IF Len(names) = 1 THEN names[1]
    ELSE names[1] \o <<",", " ">> \o CommaList(Tail(names))

WellFormedStrings ==
    UNION {{CommaList(names) : names \in [1..n -> Names]} : n \in 1..MaxFiles}

FileStrings == StringsOver(Alphabet, MaxLen) \cup WellFormedStrings

AggIdle ==
    /\ argv = <<>> /\ cwd = <<>> /\ pc = "off"
    /\ file_string = <<>> /\ base_path = <<>> /\ dataframe = None
    /\ file_paths = <<>> /\ valid_paths = <<>> /\ dataframes = <<>>
    /\ result = None /\ raised = {} /\ save_calls = 0 /\ disk = None
    /\ log = <<>> /\ stdout = <<>> /\ exit_code = None

ExeIdle ==
    /\ epc = "off" /\ eargv = <<>> /\ file_exists = FALSE /\ file = <<>>
    /\ test_question = <<>> /\ arguments = <<>> /\ test_result = FALSE
    /\ prompts = 0 /\ test_calls = 0 /\ launches = 0 /\ compile_calls = 0
    /\ entered = <<>> /\ import_string = None /\ pyinstaller_args = None
    /\ eexit = None

Init ==
    /\ argv \in {<<>>} \cup {<<s>> : s \in FileStrings}
    /\ cwd \in Bases
    /\ pc = "main"
    /\ file_string = <<>> /\ base_path = <<>> /\ dataframe = None
    /\ file_paths = <<>> /\ valid_paths = <<>> /\ dataframes = <<>>
    /\ result = None /\ raised = {} /\ save_calls = 0 /\ disk = None
    /\ log = <<>> /\ stdout = <<>> /\ exit_code = None
    /\ ExeIdle

\* ------------------------------------------------------- ExampleProgram.main
\* main: the check of the command-line argument
MainCheckArgs ==
    /\ pc = "main"
    /\ IF Len(argv) < 1
       THEN /\ log' = Append(log, Entry("ERROR", "Please provide a list of CSV files", <<>>))
            /\ exit_code' = Some(1)
            /\ pc' = "exited"
       ELSE /\ pc' = "construct"
            /\ UNCHANGED <<log, exit_code>>
    /\ UNCHANGED <<argv, cwd, file_string, base_path, dataframe, file_paths,
                   valid_paths, dataframes, result, raised, save_calls, disk, stdout>>
    /\ UNCHANGED exeVars

\* a handler that logs the exception and lets main return
MainExceptMutant(stage) ==
    /\ raised' = raised \cup {stage}
    /\ log' = Append(log, Entry("ERROR", "Unexpected error in main execution", <<>>))
    /\ exit_code' = Some(0)
    /\ pc' = "exited"
    /\ UNCHANGED result

\* what the except clause of main does with an exception of stage
MainExcept(stage) ==
    /\ raised' = raised \cup {stage}
    /\ log' = Append(log, Entry("ERROR", "Unexpected error in main execution", <<>>))
    /\ exit_code' = Some(1)
    /\ pc' = "exited"
    /\ UNCHANGED result

\* DataAggregator.__init__; os.getcwd() raises when the directory is gone
Construct ==
    /\ pc = "construct"
    /\ \E getcwd_ok \in BOOLEAN :
         IF getcwd_ok
         THEN /\ file_string' = argv[1]
              /\ base_path' = cwd
              /\ dataframe' = None
              /\ pc' = "parse"
              /\ UNCHANGED <<raised, log, exit_code, result>>
         ELSE /\ MainExcept("construct")
              /\ UNCHANGED <<file_string, base_path, dataframe>>
    /\ UNCHANGED <<argv, cwd, file_paths, valid_paths, dataframes,
                   save_calls, disk, stdout>>
    /\ UNCHANGED exeVars

\* a process without its except clause: the exception reaches main
ProcessExceptMutant(stage, logged) ==
    /\ raised' = raised \cup {stage}
    /\ log' = Append(log \o logged,
                     Entry("ERROR", "Unexpected error in main execution", <<>>))
    /\ exit_code' = Some(1)
    /\ pc' = "exited"
    /\ UNCHANGED result

\* what the except clause of process does with an exception of stage, raised
\* after the stage logged the records of logged
ProcessExcept(stage, logged) ==
    /\ raised' = raised \cup {stage}
    /\ log' = Append(log \o logged, Entry("ERROR", "Data aggregation failed", <<>>))
    /\ result' = None
    /\ pc' = "report"
    /\ UNCHANGED exit_code

\* process: FileParser.parse_file_string
ProcessParse ==
    /\ pc = "parse"
    /\ \E ok \in BOOLEAN :
         IF ok
         THEN /\ file_paths' = parse_file_string(file_string, base_path)
              /\ pc' = "validate"
              /\ UNCHANGED <<raised, log, result, exit_code>>
         ELSE /\ ProcessExcept("parse", <<>>)
              /\ UNCHANGED file_paths
    /\ UNCHANGED <<argv, cwd, file_string, base_path, dataframe, valid_paths,
                   dataframes, save_calls, disk, stdout>>
    /\ UNCHANGED exeVars

\* process: FileValidator.validate_file_paths
ProcessValidate ==
    /\ pc = "validate"
    /\ \E ok \in BOOLEAN :
         IF ok
         THEN LET v == validate_file_paths(cwd, file_paths)
              IN  /\ valid_paths' = v.valid_paths
                  /\ log' = log \o v.log
                  /\ pc' = "read"
                  /\ UNCHANGED <<raised, result, exit_code>>
         ELSE /\ ProcessExcept("validate", <<>>)
              /\ UNCHANGED valid_paths
    /\ UNCHANGED <<argv, cwd, file_string, base_path, dataframe, file_paths,
                   dataframes, save_calls, disk, stdout>>
    /\ UNCHANGED exeVars

\* process: CSVProcessor.read_and_concat_csvs, assigned to self.dataframe
ProcessRead ==
    /\ pc = "read"
    /\ \E ok \in BOOLEAN :
         IF ok
         THEN LET r == read_and_concat_csvs(cwd, valid_paths)
              IN  /\ dataframe' = r.df
                  /\ dataframes' = r.dataframes
                  /\ log' = log \o r.log
                  /\ pc' = "save"
                  /\ UNCHANGED <<raised, result, exit_code>>
         ELSE /\ ProcessExcept("read", <<>>)
              /\ UNCHANGED <<dataframe, dataframes>>
    /\ UNCHANGED <<argv, cwd, file_string, base_path, file_paths, valid_paths,
                   save_calls, disk, stdout>>
    /\ UNCHANGED exeVars

\* a test that also refuses a dataset of zero rows
HasDataMutant(df) == df # None /\ df[1].rows # <<>>

\* whether process goes on to FileWriter.save_dataframe
HasData(df) == df # None

\* process: the save, or the "no data" return
ProcessSave ==
    /\ pc = "save"
    /\ IF HasData(dataframe)
       THEN \E write_ok \in BOOLEAN :
              LET w == save_dataframe(dataframe[1], base_path, write_ok)
              IN  /\ save_calls' = save_calls + 1
                  /\ disk' = w.written
                  /\ IF w.raised
                     THEN ProcessExcept("write", w.log)
                     ELSE /\ log' = log \o w.log
                          /\ result' = w.out
                          /\ pc' = "report"
                          /\ UNCHANGED <<raised, exit_code>>
       ELSE /\ log' = Append(log, Entry("WARNING", "No data to save", <<>>))
            /\ result' = None
            /\ pc' = "report"
            /\ UNCHANGED <<raised, save_calls, disk, exit_code>>
    /\ UNCHANGED <<argv, cwd, file_string, base_path, dataframe, file_paths,
                   valid_paths, dataframes, stdout>>
    /\ UNCHANGED exeVars

\* main: the message printed, and the end of the process
MainReport ==
    /\ pc = "report"
    /\ \E print_ok \in BOOLEAN :
         IF print_ok
         THEN /\ stdout' = Append(stdout, IF result # None
                                          THEN "Processing complete. Output file"
                                          ELSE "Processing failed. Check logs for details.")
              /\ exit_code' = Some(0)
              /\ pc' = "exited"
              /\ UNCHANGED <<raised, log, result>>
         ELSE /\ MainExcept("print")
              /\ UNCHANGED stdout
    /\ UNCHANGED <<argv, cwd, file_string, base_path, dataframe, file_paths,
                   valid_paths, dataframes, save_calls, disk>>
    /\ UNCHANGED exeVars

Next ==
    \/ MainCheckArgs
    \/ Construct
    \/ ProcessParse
    \/ ProcessValidate
    \/ ProcessRead
    \/ ProcessSave
    \/ MainReport

Spec == Init /\ [][Next]_vars

\* ============================================================= Python2Exe
\* most answers the loop of main reads in a run
MaxPrompts == 3
\* longest exhaustively enumerated answer to the prompt of get_imports
MaxImportLen == 3

ScriptNames == {<<"s", ".", "p", "y">>, <<"s", ".", "t", "x", "t">>, <<".", "p", "y">>}

\* answers typed at "Did your test pass or execute? (q to quit)"
Answers == {<<"q">>, <<" ", "Q">>, <<"y">>, <<"Y", " ">>, <<"n">>, <<>>, <<"y", "e", "s">>}

\* answers typed at the (y/n) prompt of get_yes_no
YesNoAnswers == {<<"y">>, <<" ", "Y">>, <<"n">>, <<"N">>, <<>>, <<"q">>}

\* answers typed at "Separate each testing argument with a tilde (~)"
ArgStrings == {<<>>, <<"a">>, <<"a", "~", "b">>, <<" ", "a", " ", "~", "b">>}

ChardetPandas == <<"c", "h", "a", "r", "d", "e", "t", ",", " ", "p", "a", "n", "d", "a", "s">>

\* answers typed at the prompt of get_imports
ImportStrings == StringsOver({"a", "b", ",", " "}, MaxImportLen) \cup {ChardetPandas}

\* pathlib's PurePath.suffix of a file name
RECURSIVE RFind(_, _, _)
RFind(s, c, i) == IF i = 0 \/ s[i] = c THEN i ELSE RFind(s, c, i - 1)

PathSuffix(name) ==
    LET i == RFind(name, ".", Len(name))
    IN  IF 1 < i /\ i < Len(name) THEN SubSeq(name, i, Len(name)) ELSE <<>>

\* str.split(sep) for a one-character separator
RECURSIVE Split(_, _)
Split(s, sep) ==
    IF \A i \in 1..Len(s) : s[i] # sep THEN <<s>>
    ELSE LET i == CHOOSE k \in 1..Len(s) :
                      s[k] = sep /\ \A j \in 1..(k - 1) : s[j] # sep
         IN  <<SubSeq(s, 1, i - 1)>> \o Split(SubSeq(s, i + 1, Len(s)), sep)

\* sep.join(parts)
RECURSIVE JoinWith(_, _)
JoinWith(parts, sep) ==
    IF parts = <<>> THEN <<>>
    ELSE IF Len(parts) = 1 THEN parts[1]
    ELSE parts[1] \o <<sep>> \o JoinWith(Tail(parts), sep)

StripAll(parts) == [i \in 1..Len(parts) |-> Strip(parts[i])]

\* Executer.get_imports, given the string typed
get_imports(string) ==
    LET final_string == StripAll(Split(string, ","))
    IN  IF Len(string) > 2 THEN None ELSE Some(final_string)

\* the list compile_python hands to PyInstaller.__main__.run
PyInstallerArgs(script, imports) ==
    [script |-> script, onefile |-> TRUE, windowed |-> TRUE,
     hidden_import |-> IF imports # None
                       THEN Some(JoinWith(imports[1], ","))
                       ELSE None]

InitExe ==
    /\ AggIdle
    /\ epc = "main"
    /\ eargv \in {<<>>} \cup {<<n>> : n \in ScriptNames}
    /\ file_exists \in BOOLEAN
    /\ file = <<>>
    /\ test_question = <<>> /\ arguments = <<>> /\ test_result = FALSE
    /\ prompts = 0 /\ test_calls = 0 /\ launches = 0 /\ compile_calls = 0
    /\ entered = <<>> /\ import_string = None /\ pyinstaller_args = None
    /\ eexit = None

DotPy == <<".", "p", "y">>

\* main up to the loop: the usage check, validate_file, Executer(file)
ExeMain ==
    /\ epc = "main"
    /\ IF Len(eargv) < 1 \/ ~file_exists \/ PathSuffix(eargv[1]) # DotPy
       THEN /\ eexit' = Some(1)
            /\ epc' = "exited"
            /\ UNCHANGED file
       ELSE /\ file' = eargv[1]
            /\ epc' = "prompt"
            /\ UNCHANGED eexit
    /\ UNCHANGED <<eargv, file_exists, test_question, arguments, test_result,
                   prompts, test_calls, launches, compile_calls, entered,
                   import_string, pyinstaller_args>>
    /\ UNCHANGED aggVars

\* the loop of main: the answer is read; "q" ends the loop, anything else
\* calls test_file, which starts with handle_test_file_arguments
ExePrompt ==
    /\ epc = "prompt"
    /\ prompts < MaxPrompts
    /\ \E answer \in Answers :
         /\ test_question' = Lower(Strip(answer))
         /\ prompts' = prompts + 1
         /\ IF test_question' = <<"q">>
            THEN /\ epc' = "exited"
                 /\ eexit' = Some(0)
                 /\ UNCHANGED test_calls
            ELSE /\ epc' = "yesno"
                 /\ test_calls' = test_calls + 1
                 /\ UNCHANGED eexit
    /\ UNCHANGED <<eargv, file_exists, file, arguments, test_result, launches,
                   compile_calls, entered, import_string, pyinstaller_args>>
    /\ UNCHANGED aggVars

\* get_yes_no in handle_test_file_arguments: asks until the answer is y or n
ExeYesNo ==
    /\ epc = "yesno"
    /\ \E typed \in YesNoAnswers :
         LET answer == Lower(Strip(typed))
         IN  IF answer \in {<<"y">>, <<"n">>}
             THEN IF answer = <<"y">>
                  THEN /\ epc' = "args"
                       /\ UNCHANGED arguments
                  ELSE /\ epc' = "run"
                       /\ arguments' = <<>>
             ELSE UNCHANGED <<epc, arguments>>
    /\ UNCHANGED <<eargv, file_exists, file, test_question, test_result, prompts,
                   test_calls, launches, compile_calls, entered, import_string,
                   pyinstaller_args, eexit>>
    /\ UNCHANGED aggVars

\* handle_test_file_arguments: the arguments, separated by tildes
ExeArgs ==
    /\ epc = "args"
    /\ \E test_file_arguments \in ArgStrings :
         arguments' = StripAll(Split(test_file_arguments, "~"))
    /\ epc' = "run"
    /\ UNCHANGED <<eargv, file_exists, file, test_question, test_result, prompts,
                   test_calls, launches, compile_calls, entered, import_string,
                   pyinstaller_args, eexit>>
    /\ UNCHANGED aggVars

\* a loop that compiles whatever the answer was
ShouldCompileMutant(returned, question) == returned

\* main: whether compile_python is called after test_file returned
ShouldCompile(returned, question) == returned /\ question = <<"y">>

\* the rest of test_file, and what the loop of main does with its result
ExeRun ==
    /\ epc = "run"
    /\ test_result' = file_exists
    /\ launches' = IF file_exists THEN launches + 1 ELSE launches
    /\ IF ShouldCompile(test_result', test_question)
       THEN /\ compile_calls' = compile_calls + 1
            /\ epc' = "imports"
       ELSE /\ epc' = "prompt"
            /\ UNCHANGED compile_calls
    /\ UNCHANGED <<eargv, file_exists, file, test_question, arguments, prompts,
                   test_calls, entered, import_string, pyinstaller_args, eexit>>
    /\ UNCHANGED aggVars

\* compile_python: get_imports
ExeGetImports ==
    /\ epc = "imports"
    /\ \E string \in ImportStrings :
         /\ entered' = string
         /\ import_string' = get_imports(string)
    /\ epc' = "compile"
    /\ UNCHANGED <<eargv, file_exists, file, test_question, arguments, test_result,
                   prompts, test_calls, launches, compile_calls, pyinstaller_args,
                   eexit>>
    /\ UNCHANGED aggVars

\* compile_python: the run of PyInstaller (an error of which is logged), and
\* the break out of the loop of main
ExeCompile ==
    /\ epc = "compile"
    /\ pyinstaller_args' = Some(PyInstallerArgs(file, import_string))
    /\ epc' = "exited"
    /\ eexit' = Some(0)
    /\ UNCHANGED <<eargv, file_exists, file, test_question, arguments, test_result,
                   prompts, test_calls, launches, compile_calls, entered,
                   import_string>>
    /\ UNCHANGED aggVars

\* the script is removed from disk while the helper is running
EnvRemoveFile ==
    /\ epc \in {"prompt", "yesno", "args", "run"}
    /\ file_exists
    /\ file_exists' = FALSE
    /\ UNCHANGED <<epc, eargv, file, test_question, arguments, test_result,
                   prompts, test_calls, launches, compile_calls, entered,
                   import_string, pyinstaller_args, eexit>>
    /\ UNCHANGED aggVars

NextExe ==
    \/ ExeMain
    \/ ExePrompt
    \/ ExeYesNo
    \/ ExeArgs
    \/ ExeRun
    \/ ExeGetImports
    \/ ExeCompile
    \/ EnvRemoveFile

SpecExe == InitExe /\ [][NextExe]_vars

\* ================================================================== claims
\* the indices of seq whose element satisfies P, and the test that sub is
\* the subsequence of seq at those indices, in order
Kept(seq, P(_)) == {i \in 1..Len(seq) : P(seq[i])}

IsSubsequenceAt(sub, seq, idx) ==
    /\ Len(sub) = Cardinality(idx)
    /\ \A i \in idx : sub[Cardinality({j \in idx : j <= i})] = seq[i]

ProcessStages == {"parse", "validate", "read", "write"}

\* ---- C8
IsDelimiter(c) == c = "," \/ c \in {" ", "\t", "\n", "\r", "\f"}

\* the first indices of the maximal runs of non-delimiters of s
RunStarts(s) ==
    {i \in 1..Len(s) : ~IsDelimiter(s[i]) /\ (i = 1 \/ IsDelimiter(s[i - 1]))}

\* the maximal run of non-delimiters of s that starts at i
RunAt(s, i) ==
    LET j == CHOOSE k \in i..Len(s) :
                 /\ \A m \in i..k : ~IsDelimiter(s[m])
                 /\ (k = Len(s) \/ IsDelimiter(s[k + 1]))
    IN  SubSeq(s, i, j)

\* C8: once parse_file_string has run, file_paths holds, in input order, one
\* path per maximal run of characters of file_string that are neither a comma
\* nor whitespace, each the base path joined with that run; no run, no path.
C8_ParserTokens ==
    pc = "validate" =>
        LET starts == RunStarts(file_string)
        IN  /\ Len(file_paths) = Cardinality(starts)
            /\ \A i \in starts :
                 file_paths[Cardinality({j \in starts : j <= i})]
                     = OsPathJoin(base_path, RunAt(file_string, i))

C8_Witness ==
    /\ pc = "validate"
    /\ Len(file_paths) = 2
    /\ \E i \in 1..Len(file_string) : file_string[i] = "\t"
    /\ file_string[1] = "a"

\* ---- C1
EndsInCsvAnyCase(path) ==
    /\ Len(path) >= 4
    /\ path[Len(path) - 3] = "."
    /\ path[Len(path) - 2] \in {"c", "C"}
    /\ path[Len(path) - 1] \in {"s", "S"}
    /\ path[Len(path)] \in {"v", "V"}

PassesChecks(path) ==
    /\ Stat(cwd, path).type = "file"
    /\ EndsInCsvAnyCase(path)

\* C1: once validate_file_paths has run, valid_paths is exactly the
\* subsequence, in the original order, of the paths of file_paths that exist,
\* are regular files and end in ".csv" in any letter case.
C1_ValidatorFilters ==
    pc \in {"read", "save"} =>
        IsSubsequenceAt(valid_paths, file_paths, Kept(file_paths, PassesChecks))

C1_Witness ==
    /\ pc = "read"
    /\ Len(file_paths) = 2
    /\ ~PassesChecks(file_paths[1])
    /\ valid_paths = <<OsPathJoin(cwd, B_CSV)>>

\* ---- C2
IsRead(path) ==
    /\ Stat(cwd, path).type = "file"
    /\ Stat(cwd, path).kind = "table"

\* the rows of the files of paths that are read successfully, file by file
RECURSIVE SourceRows(_)
SourceRows(paths) ==
    IF paths = <<>> THEN <<>>
    ELSE (IF IsRead(Head(paths)) THEN Stat(cwd, Head(paths)).rows ELSE <<>>)
             \o SourceRows(Tail(paths))

\* C2: once read_and_concat_csvs has run on validated paths of which at least
\* one is read successfully, the dataset returned has one row per row of the
\* successfully read files, in file order and then row order (each row with
\* its own values, and NaN in the columns only other files have); files that
\* are empty or fail are skipped and the later ones are still read.
C2_RowsOfReadFiles ==
    (pc = "save" /\ \E i \in 1..Len(valid_paths) : IsRead(valid_paths[i])) =>
        /\ dataframe # None
        /\ LET rows == dataframe[1].rows
               src == SourceRows(valid_paths)
           IN  /\ Len(rows) = Len(src)
               /\ \A k \in 1..Len(src) :
                    /\ DOMAIN src[k] \subseteq DOMAIN rows[k]
                    /\ \A c \in DOMAIN rows[k] :
                         rows[k][c] = IF c \in DOMAIN src[k] THEN src[k][c] ELSE NaN

C2_Witness ==
    /\ pc = "save"
    /\ Len(valid_paths) = 2
    /\ ~IsRead(valid_paths[1])
    /\ IsRead(valid_paths[2])
    /\ dataframe # None
    /\ Len(dataframe[1].rows) = 2

\* ---- C6
IsZeroByte(path) ==
    /\ Stat(cwd, path).type = "file"
    /\ Stat(cwd, path).kind = "zero"

IsHeaderOnly(path) == IsRead(path) /\ Stat(cwd, path).rows = <<>>

HasRows(path) == IsRead(path) /\ Stat(cwd, path).rows # <<>>

Logged(level, msg, arg) == \E i \in 1..Len(log) : log[i] = Entry(level, msg, arg)

\* C6 as stated: every validated file that produces zero rows, a header-only
\* file included, is logged with a warning and is not appended to the list of
\* per-file datasets.
C6_AsStated ==
    pc = "save" =>
        /\ \A i \in 1..Len(valid_paths) :
             (IsZeroByte(valid_paths[i]) \/ IsHeaderOnly(valid_paths[i]))
                 => Logged("WARNING", "Empty file", valid_paths[i])
        /\ Len(dataframes) = Cardinality(Kept(valid_paths, HasRows))

\* C6 as amended: a validated file on which the read raises the empty-data
\* error (a zero-byte file) is logged with a warning and is not appended; a
\* header-only file is read successfully, logged as processed and appended as
\* a dataset of zero rows: the list holds the datasets of exactly the files
\* that were read, in order.
C6_EmptyDataSkipped ==
    pc = "save" =>
        /\ \A i \in 1..Len(valid_paths) :
             /\ IsZeroByte(valid_paths[i]) =>
                  /\ Logged("WARNING", "Empty file", valid_paths[i])
                  /\ ~Logged("INFO", "Successfully processed", valid_paths[i])
             /\ IsHeaderOnly(valid_paths[i]) =>
                  /\ Logged("INFO", "Successfully processed", valid_paths[i])
                  /\ ~Logged("WARNING", "Empty file", valid_paths[i])
        /\ IsSubsequenceAt([k \in 1..Len(dataframes) |-> dataframes[k].rows],
                           [i \in 1..Len(valid_paths) |->
                               IF IsRead(valid_paths[i])
                               THEN Stat(cwd, valid_paths[i]).rows ELSE <<>>],
                           Kept(valid_paths, IsRead))

C6_Witness ==
    /\ pc = "save"
    /\ Len(valid_paths) = 2
    /\ IsHeaderOnly(valid_paths[1])
    /\ IsZeroByte(valid_paths[2])
    /\ Len(dataframes) = 1
    /\ dataframes[1].rows = <<>>

\* ---- C3
\* C3: process never raises to its caller: when a stage of process raised
\* (parse, validate, read/merge, or the write that save_dataframe logs and
\* re-raises), process logged the failure and returned None, and main went on
\* to its report: the handler of main is not entered by it.
C3_ProcessNeverRaises ==
    (pc \in {"report", "exited"} /\ raised \cap ProcessStages # {}) =>
        /\ result = None
        /\ Logged("ERROR", "Data aggregation failed", <<>>)
        /\ ("write" \in raised => Logged("ERROR", "Error saving file", <<>>))
        /\ ("print" \notin raised =>
                /\ ~Logged("ERROR", "Unexpected error in main execution", <<>>)
                /\ (pc = "exited" => exit_code = Some(0)))

C3_Witness ==
    /\ pc = "exited"
    /\ "write" \in raised
    /\ save_calls = 1
    /\ result = None
    /\ exit_code = Some(0)

\* ---- C4
\* missing, not a regular file, wrong extension, empty or unreadable
IsInvalid(path) ==
    \/ Stat(cwd, path).type # "file"
    \/ ~EndsInCsvAnyCase(path)
    \/ Stat(cwd, path).kind \in {"zero", "bad"}

\* C4: when every file named in the invocation string is invalid (and no
\* stage fails for another reason), process returns None, the "no data"
\* warning is logged and save_dataframe is not called: nothing is written.
C4_AllInvalid ==
    (/\ pc \in {"report", "exited"}
     /\ raised \cap (ProcessStages \cup {"construct"}) = {}
     /\ argv # <<>>
     /\ \A i \in 1..Len(file_paths) : IsInvalid(file_paths[i])) =>
        /\ result = None
        /\ Logged("WARNING", "No data to save", <<>>)
        /\ save_calls = 0
        /\ disk = None

C4_Witness ==
    /\ pc = "report"
    /\ raised = {}
    /\ Len(file_paths) = 2
    /\ \A i \in 1..Len(file_paths) : IsInvalid(file_paths[i])
    /\ Len(valid_paths) = 1
    /\ result = None

\* ---- C5
\* C5 as stated: whenever the combined dataset has zero rows, process returns
\* None and writes no output file.
C5_AsStated ==
    (pc \in {"report", "exited"} /\ dataframe # None /\ dataframe[1].rows = <<>>) =>
        /\ result = None
        /\ disk = None

\* C5 as amended: process returns None when no file was read successfully
\* (no valid file, or every read failed or hit the empty-data error) or when a
\* stage raised; when a file was read it calls save_dataframe, also for a
\* combined dataset of zero rows, and returns the output path of the dataset
\* written unless the write raised.
C5_NoneOnlyWithoutDataset ==
    (/\ pc \in {"report", "exited"}
     /\ argv # <<>>
     /\ raised \cap {"construct", "parse", "validate", "read"} = {}) =>
        IF \E i \in 1..Len(valid_paths) : IsRead(valid_paths[i])
        THEN /\ dataframe # None
             /\ save_calls = 1
             /\ result = None <=> "write" \in raised
             /\ result # None =>
                  /\ disk = Some([path |-> result[1], df |-> dataframe[1]])
                  /\ result[1] = OsPathJoin(base_path, DefaultFilename)
        ELSE /\ dataframe = None
             /\ result = None
             /\ save_calls = 0
             /\ disk = None

C5_Witness ==
    /\ pc = "report"
    /\ dataframe # None
    /\ dataframe[1].rows = <<>>
    /\ result # None
    /\ disk # None

\* ---- C7
\* C7 as stated: the exit code is non-zero exactly when the command-line
\* argument is missing.
C7_AsStated ==
    pc = "exited" => (exit_code # Some(0) <=> argv = <<>>)

\* C7 as amended: the exit code is 1 exactly when the command-line argument
\* is missing or an exception reaches the handler of main (raised by the
\* construction of the aggregator or by printing the message), and is 0
\* otherwise; with exit code 0 main has printed the success message if process
\* returned a path and the failure message if it returned None, whatever
\* failed inside process.
C7_ExitCode ==
    pc = "exited" =>
        /\ exit_code \in {Some(0), Some(1)}
        /\ exit_code = Some(1) <=>
               (argv = <<>> \/ raised \cap {"construct", "print"} # {})
        /\ exit_code = Some(0) =>
               stdout = <<IF result # None
                          THEN "Processing complete. Output file"
                          ELSE "Processing failed. Check logs for details.">>

C7_Witness ==
    /\ pc = "exited"
    /\ argv # <<>>
    /\ "construct" \in raised
    /\ exit_code = Some(1)

\* ---- C9
\* the names typed at the prompt of get_imports, stripped
EnteredNames == StripAll(Split(entered, ","))

\* C9: once compile_python has called PyInstaller, the names entered at the
\* prompt of get_imports were passed in the "--hidden-import=" option, and the
\* option was left out only if no name was entered.
C9_ImportsPassed ==
    pyinstaller_args # None =>
        LET some_name == \E i \in 1..Len(EnteredNames) : EnteredNames[i] # <<>>
            hidden == pyinstaller_args[1].hidden_import
        IN  /\ some_name => hidden = Some(JoinWith(EnteredNames, ","))
            /\ hidden = None => ~some_name

\* ---- C10
\* C10: in the loop of main, compile_python is called at most once, only in
\* an iteration whose answer was "y" and in which test_file returned True (the
\* script was launched), and no answer is read after it; an answer of "q" ends
\* the loop without a call of test_file or compile_python; any other answer
\* calls test_file, and unless compile_python follows, the loop asks again.
C10_Step ==
    /\ compile_calls' # compile_calls =>
         /\ compile_calls = 0 /\ compile_calls' = 1
         /\ epc = "run" /\ epc' = "imports"
         /\ test_question = <<"y">>
         /\ test_result'
         /\ launches' = launches + 1
    /\ compile_calls = 1 =>
         /\ prompts' = prompts /\ test_calls' = test_calls
         /\ epc' \in {"imports", "compile", "exited"}
    /\ prompts' # prompts =>
         /\ epc = "prompt"
         /\ IF test_question' = <<"q">>
            THEN /\ epc' = "exited"
                 /\ test_calls' = test_calls /\ launches' = launches
                 /\ compile_calls' = compile_calls
            ELSE /\ epc' = "yesno"
                 /\ test_calls' = test_calls + 1
    /\ (epc = "run" /\ epc' # "run") =>
         /\ launches' = launches + (IF file_exists THEN 1 ELSE 0)
         /\ test_result' = file_exists
         /\ (test_question # <<"y">> \/ ~file_exists) =>
                /\ epc' = "prompt"
                /\ compile_calls' = compile_calls
    /\ epc = "exited" => UNCHANGED vars

C10_LoopDiscipline ==
    /\ [](compile_calls <= 1)
    /\ [](pyinstaller_args # None => compile_calls = 1)
    /\ [][C10_Step]_vars

C10_Witness ==
    /\ epc = "exited"
    /\ compile_calls = 1
    /\ prompts = 2
    /\ test_calls = 2
    /\ launches = 2
    /\ pyinstaller_args # None

====
